---- MODULE Spec2Model ----
(***************************************************************************)
(* Change detection and deduplication of the TNP monitor.                  *)
(*                                                                         *)
(* src/app.py: run_tnp_monitor, run by the scheduler's interval job, its   *)
(* one-shot immediate job and the threads POST /run starts, all in one     *)
(* process sharing job_status and one SQLite table of hashes.              *)
(* src/script.py: main, one process per run, sharing one PostgreSQL table. *)
(*                                                                         *)
(* Times are instants counted in hours from midnight (IST) of day 0.       *)
(***************************************************************************)
EXTENDS Integers, Sequences, FiniteSets, Bags, TLC

\* ------------------------------------------------------------------ bounds
\* Invocations (triggers) one behaviour may start.
MaxCycles == 2
\* Times the clock may advance.
MaxTicks == 1
\* Rows the fetched pages hold in total.
MaxRows == 1
\* Rows the fetched pages hold in total where the clock stands still.
MaxBatch == 2
\* Entries the table holds when the program starts.
MaxEntries == 2

\* ------------------------------------------------------------ program data
HoursPerDay == 24
\* timedelta(hours=24), the lookback window
LookbackHours == 24
\* timedelta(days=7), the retention window
RetentionDays == 7

Lookback == LookbackHours
Retention == RetentionDays * HoursPerDay
HalfDay == HoursPerDay \div 2
\* The clock advances by a day and a half, by the retention window or by
\* both: the steps that put a row dated noon of day 0 on the lookback cutoff,
\* and a hash stored on day 0 on the cleanup cutoff or behind it.
TickSteps == {Lookback + HalfDay, Retention, Retention + Lookback + HalfDay}

AppThreads == {"interval", "immediate", "manual"}
ScriptProcs == {"cron1", "cron2"}
Procs == AppThreads \cup ScriptProcs

\* Each program has its own table: app.py in SQLite, script.py in PostgreSQL.
Programs == {"app", "script"}
Prog(p) == IF p \in AppThreads THEN "app" ELSE "script"

\* A date attribute or text that strptime rejects.
BadDate == -1
\* None, for a time
NoTime == -1
\* error_count += 1 has read nothing yet
NoCount == -1

\* The rows a page may hold: a notice dated noon of day 0, a notice whose
\* date does not parse, and a company dated noon of day 0.
NoticeRows == [kind : {"notice"}, title : {"A"}, when : {HalfDay, BadDate}]
CompanyRows == [kind : {"company"}, title : {"A"}, when : {HalfDay}]

\* The text of a row whose cells make the body of the loop raise.
Malformed == "malformed"

\* The rows of a longer page: those above, a notice whose cells raise, and a
\* company whose date is missing or does not parse.
BatchNoticeRows == NoticeRows \cup [kind : {"notice"}, title : {Malformed}, when : {HalfDay}]
BatchCompanyRows == [kind : {"company"}, title : {"A"}, when : {HalfDay, BadDate}]

VARIABLES
    clock,          \* the wall clock, also the store's CURRENT_TIMESTAMP
    ticks,          \* times the clock advanced
    store,          \* each program's table hashes: a bag of rows [hash, timestamp]
    job_status,     \* app.py's module-level job_status
    pc,             \* where each invocation stands
    now,            \* local now of each invocation
    page,           \* the rows login and fetch returned to each invocation
    items,          \* the extracted (message, hash) pairs of each invocation
    stored_hashes,  \* the lookup's result in each invocation
    new_hashes,     \* new_hashes of each invocation
    idx,            \* position of the notification loop in items
    err,            \* the exception an invocation caught: none, fetch or store
    out,            \* the send_telegram_message calls of each invocation
    count_read,     \* app.py: error_count as error_count += 1 has read it
    DATABASE_URL,   \* script.py: whether the process has DATABASE_URL set
    ncycles,        \* history: invocations begun
    prev,           \* history: the last cycle of each program that ended
    found           \* history: the table as each cycle found it when it began

vars == <<clock, ticks, store, job_status, pc, now, page, items, stored_hashes,
          new_hashes, idx, err, out, count_read, DATABASE_URL, ncycles, prev, found>>

locals == <<now, page, items, stored_hashes, new_hashes, idx, err, out, count_read>>

\* ------------------------------------------------------------- extraction
SeqsUpTo(S, n) == UNION {[1..k -> S] : k \in 0..n}

\* A page of one notice dated noon of day 0.
OneNotice == [notices |-> <<[kind |-> "notice", title |-> "A", when |-> HalfDay]>>,
              companies |-> <<>>]

\* What login and the fetches of app.py can return: at most n rows.
AppPages(n) == {pg \in [notices : SeqsUpTo(NoticeRows, n),
                        companies : SeqsUpTo(CompanyRows, n)] :
                  Len(pg.notices) + Len(pg.companies) <= n}

\* What login and the fetch of script.py can return: at most n rows.
ScriptPages(n) == [notices : SeqsUpTo(NoticeRows, n), companies : {<<>>}]

\* The longer pages of app.py and of script.py: at most n rows.
AppBatches(n) == {pg \in [notices : SeqsUpTo(BatchNoticeRows, n),
                          companies : SeqsUpTo(BatchCompanyRows, n)] :
                    Len(pg.notices) + Len(pg.companies) <= n}

ScriptBatches(n) == [notices : SeqsUpTo(BatchNoticeRows, n), companies : {<<>>}]

NoPage == [notices |-> <<>>, companies |-> <<>>]

\* A page of two notices titled a and b, both dated noon of day 0.
TwoNotices(a, b) ==
    [notices |-> <<[kind |-> "notice", title |-> a, when |-> HalfDay],
                   [kind |-> "notice", title |-> b, when |-> HalfDay]>>,
     companies |-> <<>>]

\* The pages of two cycles that share a notice, and a page that holds the
\* same notice twice.
DiffPages == {TwoNotices("A", "B"), TwoNotices("A", "C"), TwoNotices("A", "A")}

\* A page of one notice and one company, both dated noon of day 0.
NoticeAndCompany ==
    [notices |-> <<[kind |-> "notice", title |-> "A", when |-> HalfDay]>>,
     companies |-> <<[kind |-> "company", title |-> "A", when |-> HalfDay]>>]

\* datetime.combine(post_date, datetime.time.min): the start of the row's day
DayStart(t) == (t \div HoursPerDay) * HoursPerDay

\* strftime('%d/%m/%Y %H:%M'): the day and the time of day
FormatDateTime(t) == <<t \div HoursPerDay, t % HoursPerDay>>

\* strftime('%d/%m/%Y'): the day alone
FormatDate(t) == <<t \div HoursPerDay>>

\* hashlib.md5(...).hexdigest(), taken as free of collisions
compute_hash(message) == <<"md5", message>>

\* post_datetime of a row: its parsed time, a company's reduced to its day
PostDatetime(row) ==
    IF row.kind = "company" THEN DayStart(row.when) ELSE row.when

\* TooOld as it would be with <= for <.
TooOldOrOnCutoff(post_datetime, cutoff) == post_datetime <= cutoff

\* if post_datetime < cutoff: continue
TooOld(post_datetime, cutoff) == post_datetime < cutoff

\* Parses as it would be if a date that does not parse were replaced by a
\* default instead of the row being skipped.
ParsesOrDefaults(row) == TRUE

\* strptime accepts the row's date.
Parses(row) == row.when # BadDate

\* The row passes the date parsing and the lookback filter.
Considered(row, cutoff) ==
    /\ Parses(row)
    /\ ~TooOld(PostDatetime(row), cutoff)

\* The body of the loop raises on the row: except Exception logs it and the
\* loop goes on to the next row.
RaisesInRow(row) == row.title = Malformed

Message(row) ==
    IF row.kind = "company"
    THEN [kind |-> "company", title |-> row.title,
          date |-> FormatDate(PostDatetime(row))]
    ELSE [kind |-> "notice", title |-> row.title,
          date |-> FormatDateTime(PostDatetime(row))]

\* ExtractRows as it would be with the try around the loop: the first row
\* that raises ends the extraction.
RECURSIVE ExtractUntilRaise(_, _)
ExtractUntilRaise(rows, cutoff) ==
    IF rows = <<>> \/ RaisesInRow(Head(rows)) THEN <<>>
    ELSE LET row == Head(rows)
             rest == ExtractUntilRaise(Tail(rows), cutoff)
         IN  IF Considered(row, cutoff)
             THEN <<[message |-> Message(row), hash |-> compute_hash(Message(row))]>>
                      \o rest
             ELSE rest

RECURSIVE ExtractRows(_, _)
ExtractRows(rows, cutoff) ==
    IF rows = <<>> THEN <<>>
    ELSE LET row == Head(rows)
             rest == ExtractRows(Tail(rows), cutoff)
         IN  IF Considered(row, cutoff) /\ ~RaisesInRow(row)
             THEN <<[message |-> Message(row), hash |-> compute_hash(Message(row))]>>
                      \o rest
             ELSE rest

extract_notices(rows, cutoff) == ExtractRows(rows, cutoff)
extract_companies(rows, cutoff) == ExtractRows(rows, cutoff)
extract_all_notices(rows, cutoff) == ExtractRows(rows, cutoff)

\* --------------------------------------------- extraction: the date paths
\* The date cell of a notice row at the resolution of its two formats. Times
\* in this part are instants counted in seconds; a minute is an instant
\* counted in minutes.
SecondsPerMinute == 60
SecondsPerHour == 60 * SecondsPerMinute

\* The minutes and the seconds a date cell may show.
PathMinutes == {0, 1}
PathSeconds == {0, 30}

\* The data-order attribute, 'YYYY/MM/DD HH:MM:SS', or its absence.
DataOrders ==
    {[present |-> FALSE, minute |-> 0, second |-> 0]}
        \cup [present : {TRUE}, minute : PathMinutes, second : PathSeconds]

\* The visible text of the cell, 'DD/MM/YYYY HH:MM' with or without a
\* trailing IST, or a text that is no date.
VisibleTexts ==
    {[dated |-> FALSE, minute |-> 0, ist |-> FALSE]}
        \cup [dated : {TRUE}, minute : PathMinutes, ist : BOOLEAN]

\* The notice rows at this resolution.
PathRows == [title : {"A", "B"}, link : {"n/1"},
             data_order : DataOrders, text : VisibleTexts]

\* The pages of at most n such rows.
PathPages(n) == [notices : SeqsUpTo(PathRows, n), companies : {<<>>}]

\* now of the cycle: 24 hours after minute 0, and 15 seconds later.
PathNows == {LookbackHours * SecondsPerHour, LookbackHours * SecondsPerHour + 15}

\* strptime(data_order, '%Y/%m/%d %H:%M:%S')
ParseDataOrder(d) == d.minute * SecondsPerMinute + d.second

\* strptime(visible_date_text, '%d/%m/%Y %H:%M'): script.py strips a
\* trailing IST first, app.py does not and strptime rejects the text.
ParseVisibleText(x, program) ==
    IF ~x.dated \/ (x.ist /\ program = "app") THEN BadDate
    ELSE x.minute * SecondsPerMinute

\* post_datetime of a notice row: from data-order if the attribute is there,
\* from the visible text if not.
NoticeDatetime(row, program) ==
    IF row.data_order.present
    THEN ParseDataOrder(row.data_order)
    ELSE ParseVisibleText(row.text, program)

\* FormatMinute as it would be with the seconds in the format.
FormatSecond(t) == <<t \div SecondsPerMinute, t % SecondsPerMinute>>

\* post_datetime.strftime('%d/%m/%Y %H:%M'): the minute, the seconds dropped
FormatMinute(t) == <<t \div SecondsPerMinute>>

\* message of a notice row whose post_datetime is t
NoticeMessage(row, t) ==
    [kind |-> "notice", title |-> row.title, link |-> row.link,
     date |-> FormatMinute(t)]

\* The loop of extract_notices and extract_all_notices over such rows.
RECURSIVE ExtractNoticePaths(_, _, _)
ExtractNoticePaths(rows, cutoff, program) ==
    IF rows = <<>> THEN <<>>
    ELSE LET row == Head(rows)
             post_datetime == NoticeDatetime(row, program)
             rest == ExtractNoticePaths(Tail(rows), cutoff, program)
         IN  IF post_datetime # BadDate /\ ~TooOld(post_datetime, cutoff)
             THEN <<[message |-> NoticeMessage(row, post_datetime),
                     hash |-> compute_hash(NoticeMessage(row, post_datetime))]>>
                      \o rest
             ELSE rest

\* ------------------------------------------------------------------ store
Rows(s) == BagToSet(s)

\* get_recent_hashes as it would be with > for >=.
GetHashesAfter(s, cutoff) == {r.hash : r \in {x \in Rows(s) : x.timestamp > cutoff}}

\* SELECT hash FROM hashes WHERE timestamp >= cutoff
get_recent_hashes(s, cutoff) == {r.hash : r \in {x \in Rows(s) : x.timestamp >= cutoff}}

\* INSERT INTO hashes (hash) VALUES (h), for each h, in one transaction
update_hashes(s, hashes, at) ==
    s (+) SetToBag({[hash |-> h, timestamp |-> at] : h \in hashes})

\* cleanup_hashes as it would be with <= for <.
CleanupThroughCutoff(s, cutoff) ==
    LET keep == {r \in Rows(s) : ~(r.timestamp <= cutoff)}
    IN  [r \in keep |-> s[r]]

\* cleanup_hashes as it would be without its DELETE.
CleanupNothing(s, cutoff) == s

\* DELETE FROM hashes WHERE timestamp < cutoff
cleanup_hashes(s, cutoff) ==
    LET keep == {r \in Rows(s) : ~(r.timestamp < cutoff)}
    IN  [r \in keep |-> s[r]]

\* cutoff = now - timedelta(hours=24)
Cutoff(t) == t - Lookback

\* The cutoff run_tnp_monitor and main hand to get_recent_hashes.
LookupCutoff(t) == Cutoff(t)

\* CleanupCutoff as it would be if the cleanup used the lookback cutoff.
CleanupAtLookback(t) == t - Lookback

\* cleanup_cutoff = now - timedelta(days=7)
CleanupCutoff(t) == t - Retention

\* The times of the entries a table left by earlier runs holds, for a
\* program started at time 0: the hour of each cutoff and the hour before.
EarlierTimes == {0 - Retention - 1, 0 - Retention, 0 - Lookback - 1, 0 - Lookback}

\* Entries of earlier runs: a notice posted and recorded at each of the times.
EarlierEntries ==
    {[hash |-> compute_hash(Message([kind |-> "notice", title |-> "A", when |-> t])),
      timestamp |-> t] : t \in EarlierTimes}

\* The tables of at most n such entries; the same entry may be there twice.
Tables(n) ==
    {[e \in {q[i] : i \in 1..Len(q)} |-> Cardinality({i \in 1..Len(q) : q[i] = e})] :
        q \in SeqsUpTo(EarlierEntries, n)}

\* with conn: (sqlite3) as it would be on a connection in autocommit mode:
\* what the statements did before the exception stays.
Autocommitted(before, during) == during

\* The table after a transaction that raised: with conn: rolls back
\* (app.py); conn.commit() is not reached and conn.close() discards the
\* transaction (script.py).
RolledBack(before, during) == before

\* ------------------------------------------------------------------- init
\* prev before any cycle ended
NoCycle == [batch |-> <<>>, sent |-> <<>>, outcome |-> "none", failures |-> 0]

\* The program starts.
Fresh ==
    /\ clock = 0
    /\ ticks = 0
    /\ job_status = [last_run |-> NoTime, last_success |-> NoTime,
                     error_count |-> 0, is_running |-> FALSE]
    /\ pc = [p \in Procs |-> "idle"]
    /\ now = [p \in Procs |-> NoTime]
    /\ page = [p \in Procs |-> NoPage]
    /\ items = [p \in Procs |-> <<>>]
    /\ stored_hashes = [p \in Procs |-> {}]
    /\ new_hashes = [p \in Procs |-> {}]
    /\ idx = [p \in Procs |-> 1]
    /\ err = [p \in Procs |-> "none"]
    /\ out = [p \in Procs |-> <<>>]
    /\ count_read = [p \in Procs |-> NoCount]
    /\ DATABASE_URL = [p \in ScriptProcs |-> TRUE]
    /\ ncycles = 0
    /\ prev = [g \in Programs |-> NoCycle]
    /\ found = [p \in Procs |-> EmptyBag]

\* The program starts on an empty table.
Init ==
    /\ Fresh
    /\ store = [g \in Programs |-> EmptyBag]

\* The program starts on the table earlier runs left.
InitStore ==
    /\ Fresh
    /\ \E tb \in Tables(MaxEntries) : store = [g \in Programs |-> tb]

\* One of the programs has fetched a page of notice rows and is about to
\* extract it.
InitPaths ==
    /\ clock = 0
    /\ ticks = 0
    /\ store = [g \in Programs |-> EmptyBag]
    /\ job_status = [last_run |-> NoTime, last_success |-> NoTime,
                     error_count |-> 0, is_running |-> FALSE]
    /\ \E p \in {"interval", "cron1"} :
          /\ pc = [q \in Procs |-> IF q = p THEN "fetch" ELSE "idle"]
          /\ \E t \in PathNows :
                now = [q \in Procs |-> IF q = p THEN t ELSE NoTime]
          /\ \E pg \in PathPages(MaxBatch) :
                page = [q \in Procs |-> IF q = p THEN pg ELSE NoPage]
    /\ items = [p \in Procs |-> <<>>]
    /\ stored_hashes = [p \in Procs |-> {}]
    /\ new_hashes = [p \in Procs |-> {}]
    /\ idx = [p \in Procs |-> 1]
    /\ err = [p \in Procs |-> "none"]
    /\ out = [p \in Procs |-> <<>>]
    /\ count_read = [p \in Procs |-> NoCount]
    /\ DATABASE_URL = [p \in ScriptProcs |-> TRUE]
    /\ ncycles = 0
    /\ prev = [g \in Programs |-> NoCycle]
    /\ found = [p \in Procs |-> EmptyBag]

\* ---------------------------------------------------------- shared steps
\* The next step of process p reads the clock.
ReadsClock(p) == pc[p] \in {"set", "start", "insert", "purge"}

\* Time passes. A tick commutes with every step that does not read the
\* clock, so it is taken only right before a step that does.
Tick(steps) ==
    /\ ticks < MaxTicks
    /\ \E p \in Procs : ReadsClock(p)
    /\ \E d \in steps : clock' = clock + d
    /\ ticks' = ticks + 1
    /\ UNCHANGED <<store, job_status, pc, locals, DATABASE_URL, ncycles, prev, found>>

\* A call of run_tnp_monitor or a run of script.py begins.
Begin(p) ==
    /\ ncycles < MaxCycles
    /\ ncycles' = ncycles + 1

Hashes(its) == [i \in 1..Len(its) |-> its[i].hash]

IsItem(m) == m.type = "item"

\* The hashes of the items a sequence of sends notified, in order.
ItemHashes(sends) == Hashes(SelectSeq(sends, IsItem))

\* The function returns: its locals are gone.
Return(p) ==
    /\ now' = [now EXCEPT ![p] = NoTime]
    /\ page' = [page EXCEPT ![p] = NoPage]
    /\ items' = [items EXCEPT ![p] = <<>>]
    /\ stored_hashes' = [stored_hashes EXCEPT ![p] = {}]
    /\ new_hashes' = [new_hashes EXCEPT ![p] = {}]
    /\ idx' = [idx EXCEPT ![p] = 1]
    /\ err' = [err EXCEPT ![p] = "none"]
    /\ out' = [out EXCEPT ![p] = <<>>]
    /\ count_read' = [count_read EXCEPT ![p] = NoCount]
    /\ found' = [found EXCEPT ![p] = EmptyBag]
    /\ prev' = [prev EXCEPT ![Prog(p)] =
                [batch |-> Hashes(items[p]),
                 sent |-> ItemHashes(out[p]),
                 outcome |-> IF err[p] = "none" THEN "ok" ELSE err[p],
                 failures |-> IF err[p] = "none" \/ p \in ScriptProcs
                              THEN 0 ELSE @.failures + 1]]

\* An exception of kind e is raised at pc `at`: the except clause is next.
Raise(p, at, e) ==
    /\ pc[p] = at
    /\ err' = [err EXCEPT ![p] = e]
    /\ pc' = [pc EXCEPT ![p] = "error"]
    /\ UNCHANGED <<clock, ticks, store, job_status, now, page, items,
                   stored_hashes, new_hashes, idx, out, DATABASE_URL, ncycles, prev, found, count_read>>

\* Where the cycle goes once the loop over the items is over.
AfterLoop(nh) == IF nh # {} THEN "insert" ELSE "purge"

\* stored_hashes = get_recent_hashes(conn, cutoff)
Lookup(p) ==
    /\ pc[p] = "lookup"
    /\ stored_hashes' = [stored_hashes EXCEPT ![p] =
            get_recent_hashes(store[Prog(p)], LookupCutoff(now[p]))]
    /\ pc' = [pc EXCEPT ![p] = IF items[p] = <<>> THEN AfterLoop({}) ELSE "notify"]
    /\ UNCHANGED <<clock, ticks, store, job_status, now, page, items, new_hashes,
                   idx, err, out, DATABASE_URL, ncycles, prev, found, count_read>>

\* Recorded as it would be if only a delivered item were recorded.
RecordedIfDelivered(nh, h, ok) == IF ok THEN nh \cup {h} ELSE nh

\* What the loop adds to new_hashes for an item it sent, delivered or not.
Recorded(nh, h, ok) == nh \cup {h}

\* JudgedNew as it would be without the lookup's result: every item is new.
JudgedNewAlways(h, stored) == TRUE

\* if item_hash not in stored_hashes
JudgedNew(h, stored) == h \notin stored

\* Notify as it would be if each fingerprint were inserted as soon as its
\* item is sent, instead of in one batch after the loop.
NotifyInsertingEach(p) ==
    /\ pc[p] = "notify"
    /\ LET item == items[p][idx[p]]
           last == idx[p] = Len(items[p])
       IN  IF JudgedNew(item.hash, stored_hashes[p])
           THEN \E ok \in BOOLEAN :
                  /\ out' = [out EXCEPT ![p] =
                        Append(@, [type |-> "item", hash |-> item.hash, ok |-> ok])]
                  /\ new_hashes' = [new_hashes EXCEPT ![p] = Recorded(@, item.hash, ok)]
                  /\ store' = [store EXCEPT ![Prog(p)] =
                        update_hashes(@, {item.hash}, clock)]
                  /\ pc' = [pc EXCEPT ![p] = IF last THEN "purge" ELSE "notify"]
           ELSE /\ UNCHANGED <<out, new_hashes, store>>
                /\ pc' = [pc EXCEPT ![p] = IF last THEN "purge" ELSE "notify"]
    /\ idx' = [idx EXCEPT ![p] = @ + 1]
    /\ UNCHANGED <<clock, ticks, job_status, now, page, items,
                   stored_hashes, err, DATABASE_URL, ncycles, prev, found, count_read>>

\* One turn of the loop over the items: send_telegram_message and
\* new_hashes.add for an item judged new.
Notify(p) ==
    /\ pc[p] = "notify"
    /\ LET item == items[p][idx[p]]
           last == idx[p] = Len(items[p])
       IN  IF JudgedNew(item.hash, stored_hashes[p])
           THEN \E ok \in BOOLEAN :
                  /\ out' = [out EXCEPT ![p] =
                        Append(@, [type |-> "item", hash |-> item.hash, ok |-> ok])]
                  /\ new_hashes' = [new_hashes EXCEPT ![p] = Recorded(@, item.hash, ok)]
                  /\ pc' = [pc EXCEPT ![p] =
                        IF last THEN AfterLoop(new_hashes'[p]) ELSE "notify"]
           ELSE /\ UNCHANGED <<out, new_hashes, count_read>>
                /\ pc' = [pc EXCEPT ![p] =
                        IF last THEN AfterLoop(new_hashes[p]) ELSE "notify"]
    /\ idx' = [idx EXCEPT ![p] = @ + 1]
    /\ UNCHANGED <<clock, ticks, store, job_status, now, page, items,
                   stored_hashes, err, DATABASE_URL, ncycles, prev, found, count_read>>

\* The time a message shows: the date strftime wrote, read back.
ObservedTime(message) ==
    IF message.kind = "company"
    THEN message.date[1] * HoursPerDay
    ELSE message.date[1] * HoursPerDay + message.date[2]

\* Insert as it would be if the INSERT gave each row the time of its item
\* instead of leaving the timestamp to the column's default.
InsertAtObservedTime(p) ==
    /\ pc[p] = "insert"
    /\ store' = [store EXCEPT ![Prog(p)] =
            @ (+) SetToBag({[hash |-> items[p][i].hash,
                             timestamp |-> ObservedTime(items[p][i].message)] :
                               i \in {j \in 1..Len(items[p]) :
                                         items[p][j].hash \in new_hashes[p]}})]
    /\ pc' = [pc EXCEPT ![p] = "purge"]
    /\ UNCHANGED <<clock, ticks, job_status, locals, DATABASE_URL, ncycles, prev, found>>

\* update_hashes(conn, new_hashes)
Insert(p) ==
    /\ pc[p] = "insert"
    /\ store' = [store EXCEPT ![Prog(p)] = update_hashes(@, new_hashes[p], clock)]
    /\ pc' = [pc EXCEPT ![p] = "purge"]
    /\ UNCHANGED <<clock, ticks, job_status, locals, DATABASE_URL, ncycles, prev, found>>

\* update_hashes raises, after the INSERT of some of the hashes or at the
\* commit: the transaction is rolled back.
InsertFails(p) ==
    /\ pc[p] = "insert"
    /\ \E done \in SUBSET new_hashes[p] :
         store' = [store EXCEPT ![Prog(p)] =
                      RolledBack(@, update_hashes(@, done, clock))]
    /\ err' = [err EXCEPT ![p] = "store"]
    /\ pc' = [pc EXCEPT ![p] = "error"]
    /\ UNCHANGED <<clock, ticks, job_status, now, page, items, stored_hashes,
                   new_hashes, idx, out, DATABASE_URL, ncycles, prev, found, count_read>>

\* cleanup_hashes raises, before the DELETE or at the commit: the transaction
\* is rolled back.
PurgeFails(p) ==
    /\ pc[p] = "purge"
    /\ \E deleted \in BOOLEAN :
         store' = [store EXCEPT ![Prog(p)] =
                      RolledBack(@, IF deleted
                                    THEN cleanup_hashes(@, CleanupCutoff(now[p]))
                                    ELSE @)]
    /\ err' = [err EXCEPT ![p] = "store"]
    /\ pc' = [pc EXCEPT ![p] = "error"]
    /\ UNCHANGED <<clock, ticks, job_status, now, page, items, stored_hashes,
                   new_hashes, idx, out, DATABASE_URL, ncycles, prev, found, count_read>>

\* SendError as it would be if the except clause only logged the error.
SendNoError(p) == out' = out

\* The process is stopped inside update_hashes or cleanup_hashes, before the
\* commit: the database discards the open transaction, nothing of the
\* process is left, and app.py starts again with its initial job_status.
Stops(p) ==
    /\ pc[p] \in {"insert", "purge"}
    /\ \E done \in SUBSET new_hashes[p] :
         store' = [store EXCEPT ![Prog(p)] =
                      RolledBack(@, IF pc[p] = "insert"
                                    THEN update_hashes(@, done, clock)
                                    ELSE cleanup_hashes(@, CleanupCutoff(now[p])))]
    /\ now' = [now EXCEPT ![p] = NoTime]
    /\ page' = [page EXCEPT ![p] = NoPage]
    /\ items' = [items EXCEPT ![p] = <<>>]
    /\ stored_hashes' = [stored_hashes EXCEPT ![p] = {}]
    /\ new_hashes' = [new_hashes EXCEPT ![p] = {}]
    /\ idx' = [idx EXCEPT ![p] = 1]
    /\ out' = [out EXCEPT ![p] = <<>>]
    /\ found' = [found EXCEPT ![p] = EmptyBag]
    /\ prev' = [prev EXCEPT ![Prog(p)] =
                [batch |-> Hashes(items[p]),
                 sent |-> ItemHashes(out[p]),
                 outcome |-> "stopped",
                 failures |-> 0]]
    /\ job_status' = IF p \in AppThreads
                     THEN [last_run |-> NoTime, last_success |-> NoTime,
                           error_count |-> 0, is_running |-> FALSE]
                     ELSE job_status
    /\ pc' = [pc EXCEPT ![p] = "idle"]
    /\ UNCHANGED <<clock, ticks, err, count_read, DATABASE_URL, ncycles>>

\* The except clause's send_telegram_message(error).
SendError(p) ==
    \E ok \in BOOLEAN :
        out' = [out EXCEPT ![p] =
                    Append(@, [type |-> "error", hash |-> compute_hash(err[p]), ok |-> ok])]

\* ------------------------------------------------- app.py: run_tnp_monitor
\* Where a thread is after it returns: the date-trigger job runs once.
Rest(t) == IF t = "immediate" THEN "done" ELSE "idle"

\* The scheduler or POST /run calls run_tnp_monitor.
Trigger(t) ==
    /\ pc[t] = "idle"
    /\ Begin(t)
    /\ pc' = [pc EXCEPT ![t] = "guard"]
    /\ UNCHANGED <<clock, ticks, store, job_status, locals, DATABASE_URL, prev, found>>

\* GuardSkip as it would be with the guard inside the try block: the early
\* return runs the finally clause, which clears is_running.
GuardSkipThroughFinally(t) ==
    /\ pc[t] = "guard"
    /\ job_status.is_running
    /\ pc' = [pc EXCEPT ![t] = IF t = "immediate" THEN "done" ELSE "idle"]
    /\ job_status' = [job_status EXCEPT !.is_running = FALSE]
    /\ UNCHANGED <<clock, ticks, store, locals, DATABASE_URL, ncycles, prev, found>>

\* if job_status["is_running"]: return
GuardSkip(t) ==
    /\ pc[t] = "guard"
    /\ job_status.is_running
    /\ pc' = [pc EXCEPT ![t] = Rest(t)]
    /\ UNCHANGED <<clock, ticks, store, job_status, locals, DATABASE_URL, ncycles, prev, found>>

GuardPass(t) ==
    /\ pc[t] = "guard"
    /\ ~job_status.is_running
    /\ pc' = [pc EXCEPT ![t] = "set"]
    /\ UNCHANGED <<clock, ticks, store, job_status, locals, DATABASE_URL, ncycles, prev, found>>

\* is_running = True, last_run = now(), and the cycle's now and cutoff
SetRunning(t) ==
    /\ pc[t] = "set"
    /\ job_status' = [job_status EXCEPT !.is_running = TRUE, !.last_run = clock]
    /\ now' = [now EXCEPT ![t] = clock]
    /\ found' = [found EXCEPT ![t] = store[Prog(t)]]
    /\ pc' = [pc EXCEPT ![t] = "fetch"]
    /\ UNCHANGED <<clock, ticks, store, page, items, stored_hashes, new_hashes,
                   idx, err, out, DATABASE_URL, ncycles, prev, count_read>>

\* login, both fetches and both extractions, of one of the pages in `pages`
FetchOk(t, pages) ==
    /\ pc[t] = "fetch"
    /\ \E pg \in pages :
         /\ page' = [page EXCEPT ![t] = pg]
         /\ items' = [items EXCEPT ![t] =
                extract_notices(pg.notices, Cutoff(now[t]))
                    \o extract_companies(pg.companies, Cutoff(now[t]))]
    /\ pc' = [pc EXCEPT ![t] = "lookup"]
    /\ UNCHANGED <<clock, ticks, store, job_status, now, stored_hashes,
                   new_hashes, idx, err, out, DATABASE_URL, ncycles, prev, found, count_read>>

\* Purge as it would be if the cycle ended without the cleanup.
PurgeWithoutCleanup(t) ==
    /\ pc[t] = "purge"
    /\ job_status' = [job_status EXCEPT !.last_success = clock, !.error_count = 0]
    /\ pc' = [pc EXCEPT ![t] = "finally"]
    /\ UNCHANGED <<clock, ticks, store, locals, DATABASE_URL, ncycles, prev, found>>

\* cleanup_hashes(conn, cleanup_cutoff), then last_success and error_count
Purge(t) ==
    /\ pc[t] = "purge"
    /\ store' = [store EXCEPT ![Prog(t)] = cleanup_hashes(@, CleanupCutoff(now[t]))]
    /\ job_status' = [job_status EXCEPT !.last_success = clock, !.error_count = 0]
    /\ pc' = [pc EXCEPT ![t] = "finally"]
    /\ UNCHANGED <<clock, ticks, locals, DATABASE_URL, ncycles, prev, found>>

\* HandleError as it would be if the except clause ran the cleanup too.
HandleErrorCleansUp(t) ==
    /\ pc[t] = "count"
    /\ job_status' = [job_status EXCEPT !.error_count = count_read[t] + 1]
    /\ count_read' = [count_read EXCEPT ![t] = NoCount]
    /\ store' = [store EXCEPT ![Prog(t)] = cleanup_hashes(@, CleanupCutoff(now[t]))]
    /\ SendError(t)
    /\ pc' = [pc EXCEPT ![t] = "finally"]
    /\ UNCHANGED <<clock, ticks, now, page, items, stored_hashes,
                   new_hashes, idx, err, DATABASE_URL, ncycles, prev, found>>

\* except Exception: error_count += 1 reads job_status["error_count"]; the
\* write of the sum is a later step, and no lock keeps other threads out.
ReadErrorCount(t) ==
    /\ pc[t] = "error"
    /\ count_read' = [count_read EXCEPT ![t] = job_status.error_count]
    /\ pc' = [pc EXCEPT ![t] = "count"]
    /\ UNCHANGED <<clock, ticks, store, job_status, now, page, items, stored_hashes,
                   new_hashes, idx, err, out, DATABASE_URL, ncycles, prev, found>>

\* HandleError as it would be if the except clause wrote last_success too.
HandleErrorMarksSuccess(t) ==
    /\ pc[t] = "count"
    /\ job_status' = [job_status EXCEPT !.error_count = count_read[t] + 1,
                                        !.last_success = clock]
    /\ count_read' = [count_read EXCEPT ![t] = NoCount]
    /\ SendError(t)
    /\ pc' = [pc EXCEPT ![t] = "finally"]
    /\ UNCHANGED <<clock, ticks, store, now, page, items, stored_hashes,
                   new_hashes, idx, err, DATABASE_URL, ncycles, prev, found>>

\* error_count += 1 writes the sum; then the operator's error message
HandleError(t) ==
    /\ pc[t] = "count"
    /\ job_status' = [job_status EXCEPT !.error_count = count_read[t] + 1]
    /\ count_read' = [count_read EXCEPT ![t] = NoCount]
    /\ SendError(t)
    /\ pc' = [pc EXCEPT ![t] = "finally"]
    /\ UNCHANGED <<clock, ticks, store, now, page, items, stored_hashes,
                   new_hashes, idx, err, DATABASE_URL, ncycles, prev, found>>

\* Finally as it would be if is_running = False were the last statement of
\* the try block: a cycle that raised returns with is_running still true.
FinallyInTry(t) ==
    /\ pc[t] = "finally"
    /\ job_status' = IF err[t] = "none"
                     THEN [job_status EXCEPT !.is_running = FALSE]
                     ELSE job_status
    /\ Return(t)
    /\ pc' = [pc EXCEPT ![t] = Rest(t)]
    /\ UNCHANGED <<clock, ticks, store, DATABASE_URL, ncycles>>

\* finally: conn.close() and is_running = False; the function returns
Finally(t) ==
    /\ pc[t] = "finally"
    /\ job_status' = [job_status EXCEPT !.is_running = FALSE]
    /\ Return(t)
    /\ pc' = [pc EXCEPT ![t] = Rest(t)]
    /\ UNCHANGED <<clock, ticks, store, DATABASE_URL, ncycles>>

\* The steps of a call that finds no cycle running.
Cycle(t, pages) ==
    \/ GuardPass(t)
    \/ SetRunning(t)
    \/ Raise(t, "fetch", "fetch")
    \/ FetchOk(t, pages)
    \/ Lookup(t)
    \/ Raise(t, "lookup", "store")
    \/ Notify(t)
    \/ Insert(t)
    \/ InsertFails(t)
    \/ Purge(t)
    \/ PurgeFails(t)
    \/ ReadErrorCount(t)
    \/ HandleError(t)
    \/ Finally(t)

run_tnp_monitor(t, pages) ==
    \/ Trigger(t)
    \/ GuardSkip(t)
    \/ Cycle(t, pages)

\* ------------------------------------------------------- script.py: main
\* A run of script.py is launched.
Launch(p) ==
    /\ pc[p] = "idle"
    /\ Begin(p)
    /\ \E url \in BOOLEAN : DATABASE_URL' = [DATABASE_URL EXCEPT ![p] = url]
    /\ pc' = [pc EXCEPT ![p] = "start"]
    /\ UNCHANGED <<clock, ticks, store, job_status, locals, prev, found>>

\* now = datetime.datetime.now(ist) and the cutoff
Start(p) ==
    /\ pc[p] = "start"
    /\ now' = [now EXCEPT ![p] = clock]
    /\ found' = [found EXCEPT ![p] = store[Prog(p)]]
    /\ pc' = [pc EXCEPT ![p] = "fetch"]
    /\ UNCHANGED <<clock, ticks, store, job_status, page, items, stored_hashes,
                   new_hashes, idx, err, out, DATABASE_URL, ncycles, prev, count_read>>

\* ScriptFetchOk as it would be without the test of DATABASE_URL.
ScriptFetchOkAnyway(p, pages) ==
    /\ pc[p] = "fetch"
    /\ \E pg \in pages :
         /\ page' = [page EXCEPT ![p] = pg]
         /\ items' = [items EXCEPT ![p] =
                extract_all_notices(pg.notices, Cutoff(now[p]))]
    /\ pc' = [pc EXCEPT ![p] = "lookup"]
    /\ UNCHANGED <<clock, ticks, store, job_status, now, stored_hashes,
                   new_hashes, idx, err, out, DATABASE_URL, ncycles, prev, found, count_read>>

\* login, fetch_notices and extract_all_notices, then if DATABASE_URL
ScriptFetchOk(p, pages) ==
    /\ pc[p] = "fetch"
    /\ \E pg \in pages :
         /\ page' = [page EXCEPT ![p] = pg]
         /\ items' = [items EXCEPT ![p] =
                extract_all_notices(pg.notices, Cutoff(now[p]))]
    /\ pc' = [pc EXCEPT ![p] = IF DATABASE_URL[p] THEN "lookup" ELSE "exit"]
    /\ UNCHANGED <<clock, ticks, store, job_status, now, stored_hashes,
                   new_hashes, idx, err, out, DATABASE_URL, ncycles, prev, found, count_read>>

\* cleanup_hashes(conn, cleanup_cutoff_utc)
ScriptPurge(p) ==
    /\ pc[p] = "purge"
    /\ store' = [store EXCEPT ![Prog(p)] = cleanup_hashes(@, CleanupCutoff(now[p]))]
    /\ pc' = [pc EXCEPT ![p] = "exit"]
    /\ UNCHANGED <<clock, ticks, job_status, locals, DATABASE_URL, ncycles, prev, found>>

\* except Exception: the operator's error message
ScriptHandleError(p) ==
    /\ pc[p] = "error"
    /\ SendError(p)
    /\ pc' = [pc EXCEPT ![p] = "exit"]
    /\ UNCHANGED <<clock, ticks, store, job_status, now, page, items,
                   stored_hashes, new_hashes, idx, err, DATABASE_URL, ncycles, prev, found, count_read>>

\* finally: conn.close(); the process ends
Exit(p) ==
    /\ pc[p] = "exit"
    /\ Return(p)
    /\ pc' = [pc EXCEPT ![p] = "idle"]
    /\ UNCHANGED <<clock, ticks, store, job_status, DATABASE_URL, ncycles>>

\* The steps of a run once launched.
Run(p, pages) ==
    \/ Start(p)
    \/ Raise(p, "fetch", "fetch")
    \/ ScriptFetchOk(p, pages)
    \/ Lookup(p)
    \/ Raise(p, "lookup", "store")
    \/ Notify(p)
    \/ Insert(p)
    \/ InsertFails(p)
    \/ ScriptPurge(p)
    \/ PurgeFails(p)
    \/ ScriptHandleError(p)
    \/ Exit(p)

main(p, pages) ==
    \/ Launch(p)
    \/ Run(p, pages)

\* --------------------------------------------------------- specifications
\* app.py with its three sources of triggers, the page holding one notice;
\* the clock stands still.
Next ==
    \E t \in AppThreads : run_tnp_monitor(t, {OneNotice})

Spec == Init /\ [][Next]_vars

\* Program g has not run yet.
Untouched(g) ==
    /\ \A p \in Procs : Prog(p) = g => pc[p] = "idle"
    /\ prev[g] = NoCycle

SeqTrigger == Untouched("script") /\ Trigger("interval")

SeqLaunch == Untouched("app") /\ Launch("cron1")

\* Cycles one after the other, as time passes: either app.py with the
\* interval job alone, or runs of script.py none of which overlaps another.
\* The two programs share nothing, so a behaviour runs one of them.
NextSeq ==
    \/ Tick(TickSteps)
    \/ SeqTrigger
    \/ Cycle("interval", AppPages(MaxRows))
    \/ SeqLaunch
    \/ Run("cron1", ScriptPages(MaxRows))

SpecSeq == Init /\ [][NextSeq]_vars

\* Cycles one after the other on longer pages, the clock standing still.
NextBatch ==
    \/ SeqTrigger
    \/ Cycle("interval", AppBatches(MaxBatch))
    \/ SeqLaunch
    \/ Run("cron1", ScriptBatches(MaxBatch))

SpecBatch == Init /\ [][NextBatch]_vars

\* Cycles one after the other on the table earlier runs left, the clock
\* standing still.
NextStore ==
    \/ SeqTrigger
    \/ Cycle("interval", {NoPage, OneNotice, NoticeAndCompany})
    \/ SeqLaunch
    \/ Run("cron1", {NoPage, OneNotice})
    \/ Stops("interval")
    \/ Stops("cron1")

SpecStore == InitStore /\ [][NextStore]_vars

\* Cycles one after the other on the table earlier runs left, the pages
\* sharing a notice from one cycle to the next; the clock stands still.
NextDiff ==
    \/ SeqTrigger
    \/ Cycle("interval", DiffPages)
    \/ SeqLaunch
    \/ Run("cron1", DiffPages)

SpecDiff == InitStore /\ [][NextDiff]_vars

\* recent_notices = extract_notices(notices_html, cutoff, ist), and
\* extract_all_notices in script.py, on the page the process holds
ExtractPaths(p) ==
    /\ pc[p] = "fetch"
    /\ items' = [items EXCEPT ![p] =
            ExtractNoticePaths(page[p].notices,
                               now[p] - LookbackHours * SecondsPerHour, Prog(p))]
    /\ pc' = [pc EXCEPT ![p] = "lookup"]
    /\ UNCHANGED <<clock, ticks, store, job_status, now, page, stored_hashes,
                   new_hashes, idx, err, out, count_read, DATABASE_URL, ncycles,
                   prev, found>>

\* The extraction alone, of either program.
NextPaths ==
    \/ ExtractPaths("interval")
    \/ ExtractPaths("cron1")

SpecPaths == InitPaths /\ [][NextPaths]_vars

\* The program that has run MaxCycles cycles goes on.
Again(p) ==
    /\ ncycles = MaxCycles
    /\ pc[p] = "idle"
    /\ prev[Prog(p)] # NoCycle

\* The interval job fires again, as long as error_count is below MaxCycles.
AgainTrigger ==
    /\ Again("interval")
    /\ job_status.error_count < MaxCycles
    /\ pc' = [pc EXCEPT !["interval"] = "guard"]
    /\ UNCHANGED <<clock, ticks, store, job_status, locals, DATABASE_URL, ncycles, prev, found>>

\* script.py is launched again.
AgainLaunch ==
    /\ Again("cron1")
    /\ \E url \in BOOLEAN : DATABASE_URL' = [DATABASE_URL EXCEPT !["cron1"] = url]
    /\ pc' = [pc EXCEPT !["cron1"] = "start"]
    /\ UNCHANGED <<clock, ticks, store, job_status, locals, ncycles, prev, found>>

\* Cycles one after the other without end, as time passes: the scheduler
\* keeps firing the interval job, script.py keeps being launched, and a
\* cycle that has begun takes its steps.
NextLive ==
    \/ Tick(TickSteps)
    \/ SeqTrigger
    \/ AgainTrigger
    \/ Cycle("interval", {OneNotice})
    \/ SeqLaunch
    \/ AgainLaunch
    \/ Run("cron1", {OneNotice})

SpecLive == Init /\ [][NextLive]_vars /\ WF_vars(NextLive)

\* Two runs of script.py that may overlap, on the same table.
NextScript ==
    \E p \in ScriptProcs : main(p, ScriptPages(MaxRows))

SpecScript == Init /\ [][NextScript]_vars

\* ------------------------------------------------------------- properties
Range(q) == {q[i] : i \in 1..Len(q)}

Count(h, q) == Cardinality({i \in 1..Len(q) : q[i] = h})

\* Process p takes a step.
Steps(p) == pc'[p] # pc[p]

\* Process p calls send_telegram_message for an item in this step.
SendsItem(p) ==
    /\ Len(out'[p]) = Len(out[p]) + 1
    /\ IsItem(out'[p][Len(out'[p])])

JustSent(p) == out'[p][Len(out'[p])]

\* The entries of table s with hash h that are inside the retention window
\* of a cycle whose now is t, each counted as often as the table holds it.
ActiveCopies(s, h, t) ==
    LET act == {r \in Rows(s) : r.hash = h /\ r.timestamp >= t - Retention}
        RECURSIVE Sum(_)
        Sum(S) == IF S = {} THEN 0
                  ELSE LET r == CHOOSE x \in S : TRUE
                       IN  s[r] + Sum(S \ {r})
    IN  Sum(act)

\* Where a call of run_tnp_monitor is past the is_running guard.
PastGuard == {"set", "fetch", "lookup", "notify", "insert", "purge", "error", "count",
              "finally"}

\* The cycle of p has run to its end without an exception.
Completed(p) == pc[p] \in {"finally", "exit"} /\ err[p] = "none"

\* C1: an item whose fingerprint has a stored entry with
\* recorded_at >= now - 7 days is not notified, whatever its observed_time
\* and however old the entry is inside the retention window.
C1_NoRenotifyWithinRetention ==
    [][\A p \in Procs :
          SendsItem(p) => ActiveCopies(store[Prog(p)], JustSent(p).hash, now[p]) = 0]_vars

\* C2: no state has two calls of run_tnp_monitor past the is_running guard.
C2_AtMostOneActive ==
    Cardinality({t \in AppThreads : pc[t] \in PastGuard}) <= 1

\* C3: of two consecutive cycles that both complete and both hold the same
\* payload, the first, if it notifies the payload, notifies it exactly once,
\* and the second does not notify it.
C3_OnceThenNever ==
    \A p \in Procs :
        (Completed(p) /\ prev[Prog(p)].outcome = "ok") =>
            \A h \in Range(prev[Prog(p)].sent) \cap Range(Hashes(items[p])) :
                /\ Count(h, prev[Prog(p)].sent) = 1
                /\ Count(h, ItemHashes(out[p])) = 0

\* C4: a fingerprint notified by a cycle that then aborted with a store error
\* is not notified by the cycle that follows.
C4_NoRenotifyAfterStoreError ==
    \A p \in Procs :
        prev[Prog(p)].outcome = "store" =>
            Range(ItemHashes(out[p])) \cap Range(prev[Prog(p)].sent) = {}

\* C5: update_hashes called with a fingerprint that has an entry inside the
\* retention window leaves exactly one such entry for it.
C5_InsertIdempotent ==
    [][\A p \in Procs :
          (pc[p] = "insert" /\ pc'[p] = "purge") =>
              \A h \in new_hashes[p] :
                  ActiveCopies(store[Prog(p)], h, now[p]) >= 1 =>
                      ActiveCopies(store'[Prog(p)], h, now[p]) = 1]_vars

\* C6: whatever the interleaving of two runs of script.py on one table, the
\* table never holds two entries inside the retention window with the same
\* fingerprint.
C6_NoDuplicateAcrossProcesses ==
    \A r \in Rows(store["script"]) :
        ActiveCopies(store["script"], r.hash, clock) <= 1


\* C7: a call of run_tnp_monitor that finds is_running true returns at once
\* and changes nothing: job_status, the store, every local of every call and
\* every message sent stay as they were, and nothing is left that would run
\* the call later.
C7_DroppedTriggerIsNoOp ==
    [][\A t \in AppThreads :
          (pc[t] = "guard" /\ job_status.is_running /\ Steps(t)) =>
              /\ pc' = [pc EXCEPT ![t] = IF t = "immediate" THEN "done" ELSE "idle"]
              /\ UNCHANGED <<clock, store, job_status, locals, prev, found>>]_vars

\* A trigger was dropped: the one-shot job has returned, no cycle has ended,
\* and the cycle that made it return is still running.
C7_Witness ==
    /\ pc["immediate"] = "done"
    /\ prev["app"] = NoCycle
    /\ job_status.is_running

\* The step leaves the table of p's program as it was.
StoreUnchanged(p) == store'[Prog(p)] = store[Prog(p)]

\* C8: a cycle in which login or a fetch fails does no store operation: no
\* step of it, from its start to its return, changes the table or reads it,
\* and after the failure it goes through its except and finally clauses back
\* to idle.
C8_FetchFailureTouchesNoStore ==
    [][\A p \in {"interval", "cron1"} :
          /\ (Steps(p) /\ pc[p] \in {"idle", "guard", "set", "start", "fetch"})
                => StoreUnchanged(p) /\ stored_hashes'[p] = {}
          /\ (Steps(p) /\ err[p] = "none" /\ err'[p] = "fetch")
                => StoreUnchanged(p) /\ pc[p] = "fetch" /\ pc'[p] = "error"
          /\ (Steps(p) /\ err[p] = "fetch")
                => /\ StoreUnchanged(p)
                   /\ stored_hashes[p] = {} /\ new_hashes[p] = {}
                   /\ \/ pc[p] = "error" /\ pc'[p] \in {"count", "exit"}
                      \/ pc[p] = "count" /\ pc'[p] = "finally"
                      \/ /\ pc[p] \in {"finally", "exit"} /\ pc'[p] = "idle"
                         /\ ~job_status'.is_running]_vars

\* A cycle whose fetch failed is about to return, its table holding an entry.
C8_Witness ==
    \E p \in {"interval", "cron1"} :
        /\ err[p] = "fetch"
        /\ pc[p] \in {"finally", "exit"}
        /\ store[Prog(p)] # EmptyBag

\* The fingerprints the loop of p has judged new so far.
JudgedNewSoFar(p) ==
    {items[p][i].hash : i \in {j \in 1..(idx[p] - 1) :
                                items[p][j].hash \notin stored_hashes[p]}}

\* C9: a failed delivery does not stop the cycle, and new_hashes is the set
\* of fingerprints judged new whether or not each was delivered; the insert
\* of the cycle stores every one of them.
C9_FailedDeliveryStillRecorded ==
    [][\A p \in Procs :
          /\ (new_hashes[p] = JudgedNewSoFar(p))'
          /\ (SendsItem(p) /\ ~JustSent(p).ok) =>
                /\ pc'[p] \in {"notify", "insert"}
                /\ err'[p] = "none"
                /\ JustSent(p).hash \in new_hashes'[p]
          /\ (pc[p] = "insert" /\ pc'[p] = "purge") =>
                \A h \in new_hashes[p] :
                    [hash |-> h, timestamp |-> clock] \in Rows(store'[Prog(p)])]_vars

\* A cycle has inserted the fingerprint of an item whose delivery failed.
C9_Witness ==
    \E p \in Procs :
        /\ pc[p] = "purge"
        /\ \E i \in 1..Len(out[p]) :
              /\ IsItem(out[p][i])
              /\ ~out[p][i].ok
              /\ out[p][i].hash \in {r.hash : r \in Rows(store[Prog(p)])}

PageRows(p) == Range(page[p].notices) \cup Range(page[p].companies)

\* The row's date parses and its post_datetime is older than now - 24 hours.
Stale(row, p) == row.when # BadDate /\ PostDatetime(row) < now[p] - LookbackHours

\* The row's date parses and its post_datetime is now - 24 hours.
OnCutoff(row, p) == row.when # BadDate /\ PostDatetime(row) = now[p] - LookbackHours

RowHash(row) == compute_hash(Message(row))

UndatedRows == {row \in BatchNoticeRows \cup BatchCompanyRows : row.when = BadDate}

\* The positions of the rows of q whose date parses.
Dated(q) == {i \in 1..Len(q) : q[i].when # BadDate}

\* C11: a row whose date is missing or does not parse is dropped: it gives no
\* item, so no fingerprint is computed for it, it is never notified and never
\* stored, and no time, the current time included, is put in place of its
\* date: the items are no more than the rows whose date parses.
C11_UndatedRowDropped ==
    /\ \A p \in Procs :
          /\ Len(items[p]) <= Cardinality(Dated(page[p].notices))
                                + Cardinality(Dated(page[p].companies))
          /\ \A row \in UndatedRows :
                /\ RowHash(row) \notin Range(Hashes(items[p]))
                /\ RowHash(row) \notin Range(ItemHashes(out[p]))
                /\ RowHash(row) \notin new_hashes[p]
    /\ \A g \in Programs : \A row \in UndatedRows :
          /\ RowHash(row) \notin {r.hash : r \in Rows(store[g])}
          /\ RowHash(row) \notin Range(prev[g].sent)

\* A cycle whose page held a row without a usable date next to a row with
\* one has notified the latter and finished its loop.
C11_Witness ==
    \E p \in Procs :
        /\ pc[p] = "purge"
        /\ PageRows(p) \cap UndatedRows # {}
        /\ out[p] # <<>>

\* The row extracts without error and is inside the lookback window of p.
Extracts(row, p) ==
    /\ row.when # BadDate
    /\ row.title # Malformed
    /\ PostDatetime(row) >= now[p] - LookbackHours

\* The row makes the body of the extraction loop raise.
Fails(row) == row.when = BadDate \/ row.title = Malformed

\* C12: a row that raises during extraction is the only one skipped: once the
\* loop over the items is over, every row of the page that extracts without
\* error, is inside the lookback window and is not among the stored hashes
\* has been notified and is recorded, wherever the rows that raise stand and
\* however many they are; the items are as many as the rows that extract.
C12_BadRowSkipsOnlyItself ==
    \A p \in Procs :
        /\ pc[p] \in {"lookup", "notify", "insert", "purge"} =>
              Len(items[p]) =
                  Cardinality({i \in 1..Len(page[p].notices) :
                                  Extracts(page[p].notices[i], p)})
                  + Cardinality({i \in 1..Len(page[p].companies) :
                                  Extracts(page[p].companies[i], p)})
        /\ pc[p] = "purge" =>
              \A row \in PageRows(p) :
                  (Extracts(row, p) /\ RowHash(row) \notin stored_hashes[p]) =>
                      /\ RowHash(row) \in Range(ItemHashes(out[p]))
                      /\ RowHash(row) \in new_hashes[p]
                      /\ RowHash(row) \in {r.hash : r \in Rows(store[Prog(p)])}

\* A cycle whose page held a row that raises ahead of a row that extracts
\* has notified and recorded the latter.
C12_Witness ==
    \E p \in Procs :
        /\ pc[p] = "purge"
        /\ Len(page[p].notices) >= 2
        /\ Fails(page[p].notices[1])
        /\ Extracts(page[p].notices[2], p)
        /\ RowHash(page[p].notices[2]) \in {r.hash : r \in Rows(store[Prog(p)])}
        /\ out[p] # <<>>

\* C13: cleanup_hashes called with cutoff now - 7 days leaves no entry
\* recorded before the cutoff, leaves every entry recorded at or after it in
\* place, as often as the table held it, adds none, and leaves the table as
\* it was when no entry is older than the cutoff.
C13_PurgeExact ==
    [][\A p \in Procs :
          (pc[p] = "purge" /\ pc'[p] \in {"finally", "exit"}) =>
              LET s == store[Prog(p)]
                  s2 == store'[Prog(p)]
                  cutoff == now[p] - Retention
              IN  /\ \A r \in Rows(s2) : r.timestamp >= cutoff
                  /\ \A r \in Rows(s) \cup Rows(s2) :
                        r.timestamp >= cutoff => CopiesIn(r, s2) = CopiesIn(r, s)
                  /\ (\A r \in Rows(s) : r.timestamp >= cutoff) => s2 = s]_vars

\* A cycle has run its cleanup on a table holding an entry recorded exactly
\* on the cutoff, and the entry is there.
C13_Witness ==
    \E p \in Procs :
        /\ pc[p] \in {"finally", "exit"}
        /\ err[p] = "none"
        /\ \E r \in Rows(store[Prog(p)]) : r.timestamp = now[p] - Retention
        /\ \A r \in Rows(store[Prog(p)]) : r.timestamp >= now[p] - Retention

\* C14: get_recent_hashes called with windowStart now - 24 hours returns the
\* hash of every entry recorded at or after windowStart and no hash but
\* those, the empty set when there is none, raises nothing and leaves the
\* table as it was.
C14_RecentExact ==
    [][\A p \in Procs :
          (pc[p] = "lookup" /\ pc'[p] \notin {"lookup", "error"}) =>
              LET s == store[Prog(p)]
                  windowStart == now[p] - LookbackHours
              IN  /\ \A r \in Rows(s) :
                        r.timestamp >= windowStart => r.hash \in stored_hashes'[p]
                  /\ \A h \in stored_hashes'[p] :
                        \E r \in Rows(s) : r.hash = h /\ r.timestamp >= windowStart
                  /\ (\A r \in Rows(s) : r.timestamp < windowStart) =>
                        stored_hashes'[p] = {}
                  /\ store' = store
                  /\ err'[p] = "none"]_vars

\* A lookup has returned the hash of an entry recorded exactly on windowStart
\* and left out an entry recorded before it.
C14_Witness ==
    \E p \in Procs :
        /\ pc[p] \in {"notify", "insert", "purge"}
        /\ \E r \in Rows(store[Prog(p)]) :
              r.timestamp = now[p] - LookbackHours /\ r.hash \in stored_hashes[p]
        /\ \E r \in Rows(store[Prog(p)]) :
              r.timestamp < now[p] - LookbackHours /\ r.hash \notin stored_hashes[p]

\* No call of run_tnp_monitor is past the is_running guard.
NoCycleActive == \A t \in AppThreads : pc[t] \notin PastGuard

\* C15: whenever no cycle is active, error_count is the number of cycles
\* that failed since the last cycle that succeeded, or since the start if
\* none did.
C15_ErrorCountIsFailureStreak ==
    NoCycleActive => job_status.error_count = prev["app"].failures

IsError(m) == m.type = "error"

\* C16: an exception of a store operation, be it the lookup, the insert or
\* the cleanup, ends the cycle's work as one of login or fetch does: the
\* cycle goes to its except clause, then does no store operation and does
\* not set last_success, adds one to error_count (app.py), sends one error
\* message to the operator and returns through its finally clause.
C16_StoreFailureIsFatal ==
    [][\A p \in {"interval", "cron1"} :
          /\ (Steps(p) /\ err[p] = "none" /\ err'[p] = "store") =>
                /\ pc[p] \in {"lookup", "insert", "purge"}
                /\ pc'[p] = "error"
                /\ job_status' = job_status
                /\ out'[p] = out[p]
          /\ (Steps(p) /\ err[p] # "none") =>
                /\ StoreUnchanged(p)
                /\ stored_hashes'[p] \in {stored_hashes[p], {}}
                /\ job_status'.last_success = job_status.last_success
                /\ \/ /\ pc[p] = "error" /\ pc'[p] = "count"
                      /\ job_status' = job_status
                      /\ out'[p] = out[p]
                   \/ /\ pc[p] = "count" /\ pc'[p] = "finally"
                      /\ job_status'.error_count = job_status.error_count + 1
                      /\ Len(out'[p]) = Len(out[p]) + 1
                      /\ IsError(JustSent(p))
                      /\ Len(SelectSeq(out'[p], IsError)) = 1
                   \/ /\ pc[p] = "error" /\ pc'[p] = "exit"
                      /\ job_status' = job_status
                      /\ Len(out'[p]) = Len(out[p]) + 1
                      /\ IsError(JustSent(p))
                      /\ Len(SelectSeq(out'[p], IsError)) = 1
                   \/ /\ pc[p] \in {"finally", "exit"} /\ pc'[p] = "idle"
                      /\ job_status'.error_count = job_status.error_count
                      /\ ~job_status'.is_running]_vars

\* A cycle that notified an item and whose store operation then raised has
\* sent the operator's error message.
C16_Witness ==
    \E p \in {"interval", "cron1"} :
        /\ pc[p] \in {"finally", "exit"}
        /\ err[p] = "store"
        /\ Len(SelectSeq(out[p], IsItem)) >= 1
        /\ Len(SelectSeq(out[p], IsError)) = 1

\* C17: update_hashes and cleanup_hashes are all or nothing: when the call
\* raises, after some of the INSERTs or at the commit, or when the process
\* is stopped inside it, the table is as it was before the call: none of the
\* batch's fingerprints is in it and no entry has been removed.
C17_StoreCallsAllOrNothing ==
    [][\A p \in Procs :
          (pc[p] \in {"insert", "purge"} /\ pc'[p] \in {"error", "idle"}) =>
              /\ store' = store
              /\ pc[p] = "insert" =>
                    \A h \in new_hashes[p] \ stored_hashes[p] :
                        CopiesIn([hash |-> h, timestamp |-> clock], store'[Prog(p)])
                            = CopiesIn([hash |-> h, timestamp |-> clock], store[Prog(p)])]_vars

\* update_hashes raised on a batch of two fingerprints, and neither is in
\* the table.
C17_Witness ==
    \E p \in Procs :
        /\ pc[p] = "error"
        /\ err[p] = "store"
        /\ Cardinality(new_hashes[p]) >= 2
        /\ \A h \in new_hashes[p] : h \notin {r.hash : r \in Rows(store[Prog(p)])}

\* The values the clock can take.
RECURSIVE ClockAfter(_)
ClockAfter(k) ==
    IF k = 0 THEN {0}
    ELSE LET before == ClockAfter(k - 1)
         IN  before \cup {c + d : c \in before, d \in TickSteps}

\* The entries a table can hold for the page of one notice that can come to
\* be older than 7 days: those recorded before the clock last advances.
PossibleEntries ==
    {[hash |-> RowHash(OneNotice.notices[1]), timestamp |-> t] :
        t \in ClockAfter(MaxTicks - 1)}

\* Entry r is in the table of g and was recorded more than 7 days ago.
Expired(g, r) == r \in Rows(store[g]) /\ r.timestamp < clock - Retention

\* A cycle of the program has just run its cleanup.
CleanedUp(g) ==
    \E p \in Procs :
        /\ Prog(p) = g
        /\ pc[p] \in {"finally", "exit"}
        /\ err[p] = "none"
        /\ p \in ScriptProcs => DATABASE_URL[p]

\* A cycle of the program has just been triggered.
Triggered(g) == \E p \in Procs : Prog(p) = g /\ pc[p] \in {"guard", "start"}

\* C18 as stated: an entry recorded more than 7 days ago is eventually
\* deleted, given only that cycles keep being triggered.
C18_ExpiredEventuallyDeleted ==
    \A g \in Programs : \A r \in PossibleEntries :
        ([]<>Triggered(g)) => (Expired(g, r) ~> (r \notin Rows(store[g])))

\* C18: an entry recorded more than 7 days ago is eventually deleted, given
\* that cycles keep being triggered and keep reaching their cleanup, that
\* is, run without an exception and, in script.py, with DATABASE_URL set.
C18_ExpiredDeletedByCleanups ==
    \A g \in Programs : \A r \in PossibleEntries :
        ([]<>CleanedUp(g)) => (Expired(g, r) ~> (r \notin Rows(store[g])))

\* A cycle that ran more than 7 days after the one before it recorded a
\* fingerprint has run its cleanup, and the entry is gone.
C18_Witness ==
    \E p \in Procs :
        /\ pc[p] \in {"finally", "exit"}
        /\ err[p] = "none"
        /\ prev[Prog(p)].outcome = "ok"
        /\ prev[Prog(p)].sent # <<>>
        /\ now[p] > Retention
        /\ store[Prog(p)] = EmptyBag

\* C19: an entry is never changed and leaves the table only through the
\* cleanup: a step after which the table holds an entry less often is the
\* cleanup of a cycle for which the entry was recorded before now - 7 days,
\* and a step after which it holds an entry more often is the insert of a
\* cycle that judged the fingerprint new, recording it at the current time.
C19_OnlyCleanupRemoves ==
    [][\A g \in Programs : \A r \in Rows(store[g]) \cup Rows(store'[g]) :
          /\ CopiesIn(r, store'[g]) < CopiesIn(r, store[g]) =>
                \E p \in Procs :
                    /\ Prog(p) = g
                    /\ pc[p] = "purge" /\ pc'[p] \in {"finally", "exit"}
                    /\ r.timestamp < now[p] - Retention
          /\ CopiesIn(r, store'[g]) > CopiesIn(r, store[g]) =>
                \E p \in Procs :
                    /\ Prog(p) = g
                    /\ pc[p] = "insert" /\ pc'[p] = "purge"
                    /\ r.hash \in new_hashes[p]
                    /\ r.timestamp = clock]_vars

\* A cycle run 7 days or more after a fingerprint was recorded has run its
\* cleanup, and an entry is still in the table.
C19_Witness ==
    \E p \in Procs :
        /\ pc[p] \in {"finally", "exit"}
        /\ err[p] = "none"
        /\ now[p] >= Retention
        /\ \E r \in Rows(store[Prog(p)]) : r.timestamp < now[p]

\* The step takes p to the end of its cycle: the finally clause is next.
EndsCycle(p) == pc[p] \notin {"finally", "exit"} /\ pc'[p] \in {"finally", "exit"}

\* The step of p is the cleanup with cutoff now - 7 days.
IsCleanup(p) ==
    /\ pc[p] = "purge"
    /\ LET s == store[Prog(p)]
           keep == {r \in Rows(s) : r.timestamp >= now[p] - Retention}
       IN  store'[Prog(p)] = [r \in keep |-> s[r]]

\* Once the cycle of p is at its end it does no lookup and changes no entry.
NoStoreStepAtEnd(p) ==
    (Steps(p) /\ pc[p] \in {"finally", "exit"}) =>
        /\ StoreUnchanged(p)
        /\ stored_hashes'[p] \in {stored_hashes[p], {}}
        /\ pc'[p] = "idle"

\* C20 as stated: every cycle that starts ends with the cleanup, with
\* cutoff now - 7 days, and no lookup or insert of the cycle follows it.
C20_EveryCycleEndsWithCleanup ==
    [][\A p \in {"interval", "cron1"} :
          /\ EndsCycle(p) => IsCleanup(p)
          /\ NoStoreStepAtEnd(p)]_vars

\* C20: every cycle that raises no exception and, in script.py, has
\* DATABASE_URL set ends with the cleanup, with cutoff now - 7 days: the
\* lookup and the insert come before it and no store operation of the cycle
\* follows it. A cycle that raises, or has no DATABASE_URL, ends without it.
C20_CompletedCycleEndsWithCleanup ==
    [][\A p \in {"interval", "cron1"} :
          /\ (EndsCycle(p) /\ err[p] = "none" /\ (p \in ScriptProcs => DATABASE_URL[p]))
                => IsCleanup(p)
          /\ (EndsCycle(p) /\ ~(err[p] = "none" /\ (p \in ScriptProcs => DATABASE_URL[p])))
                => StoreUnchanged(p)
          /\ (Steps(p) /\ pc[p] \in {"lookup", "insert"}) => ~EndsCycle(p)
          /\ NoStoreStepAtEnd(p)]_vars

\* A cycle has looked up, inserted and then cleaned up, and is at its end.
C20_Witness ==
    \E p \in {"interval", "cron1"} :
        /\ pc[p] \in {"finally", "exit"}
        /\ err[p] = "none"
        /\ new_hashes[p] # {}
        /\ \A h \in new_hashes[p] : h \in {r.hash : r \in Rows(store[Prog(p)])}

\* The cycle of p has run all its steps, the store's included.
Succeeded(p) == Completed(p) /\ (p \in ScriptProcs => DATABASE_URL[p])

\* The entries of table s recorded at or after t - 7 days, as often as s
\* holds them.
Unexpired(s, t) ==
    LET keep == {r \in Rows(s) : r.timestamp >= t - Retention}
    IN  [r \in keep |-> s[r]]

\* The fingerprints of table s recorded at or after t - 24 hours.
RecentSet(s, t) == {r.hash : r \in {x \in Rows(s) : x.timestamp >= t - LookbackHours}}

\* The distinct fingerprints of the items of p that are not in the recent set
\* of the table the cycle found.
NewOf(p) == Range(Hashes(items[p])) \ RecentSet(found[p], now[p])

\* C21: after a successful cycle that found table S and extracted items I,
\* the table holds exactly the entries of S recorded at or after now - 7
\* days, as often as S held them, and one new entry, recorded at the time of
\* the insert, for each distinct fingerprint of I that is not in the recent
\* set of S; the fingerprints notified are exactly those.
C21_CycleEffectExact ==
    \A p \in {"interval", "cron1"} :
        Succeeded(p) =>
            /\ \E t \in now[p]..clock :
                  store[Prog(p)] =
                      Unexpired(found[p], now[p])
                          (+) SetToBag({[hash |-> h, timestamp |-> t] : h \in NewOf(p)})
            /\ Range(ItemHashes(out[p])) = NewOf(p)

\* On an empty table a cycle on [A, B] notified both and left two entries;
\* the next cycle, on [A, C], has notified C alone and the table holds three.
C21_Witness ==
    \E p \in {"interval", "cron1"} :
        /\ Succeeded(p)
        /\ prev[Prog(p)].outcome = "ok"
        /\ prev[Prog(p)].sent = Hashes(ExtractRows(TwoNotices("A", "B").notices, Cutoff(0)))
        /\ BagCardinality(found[p]) = 2
        /\ page[p] = TwoNotices("A", "C")
        /\ ItemHashes(out[p]) = <<RowHash(TwoNotices("A", "C").notices[2])>>
        /\ BagCardinality(store[Prog(p)]) = 3

\* C22: within one cycle send_telegram_message is called at most once for a
\* fingerprint judged new and never for a fingerprint the lookup returned,
\* also when two items of the batch have the same payload.
C22_NotifiedOncePerFingerprint ==
    \A p \in Procs :
        \A h \in Range(ItemHashes(out[p])) :
            /\ Count(h, ItemHashes(out[p])) = 1
            /\ h \notin stored_hashes[p]

\* Where a call of run_tnp_monitor is after is_running = True and before the
\* is_running = False of its finally clause.
BetweenSetAndFinally == PastGuard \ {"set"}

\* C23: is_running is true exactly when a cycle is active: in every state
\* reachable under concurrent triggers, is_running is false only if no call
\* of run_tnp_monitor is between its guard and its finally clause, and true
\* only if one is.
C23_IsRunningIffActive ==
    job_status.is_running <=> (\E t \in AppThreads : pc[t] \in BetweenSetAndFinally)

\* The place of each step of a cycle in the order of the cycle.
Rank(at) ==
    CASE at = "lookup" -> 1
      [] at = "notify" -> 2
      [] at = "insert" -> 3
      [] at = "purge" -> 4
      [] OTHER -> 5

\* The steps of a cycle between the extraction and the finally clause.
Ordered == {"lookup", "notify", "insert", "purge"}

\* The step of p adds an entry to the table or removes one.
Inserts(p) == \E r \in Rows(store'[Prog(p)]) :
                 CopiesIn(r, store'[Prog(p)]) > CopiesIn(r, store[Prog(p)])

Removes(p) == \E r \in Rows(store[Prog(p)]) :
                 CopiesIn(r, store'[Prog(p)]) < CopiesIn(r, store[Prog(p)])

\* C24: the steps of a cycle are strictly ordered. There is one lookup, and
\* it comes before every notification: when it runs nothing has been sent.
\* Every notification comes before the insert: while the loop sends, the
\* table is as the cycle found it. There is one insert, of the whole batch,
\* after the last turn of the loop, and the purge comes after it; no step
\* does two of these at once and no step goes back to an earlier one.
C24_StepsInOrder ==
    [][\A p \in {"interval", "cron1"} :
          /\ (Steps(p) /\ pc[p] \in Ordered) =>
                /\ Rank(pc'[p]) >= Rank(pc[p])
                /\ Rank(pc'[p]) = Rank(pc[p]) => pc[p] = "notify"
          /\ (Steps(p) /\ pc'[p] = "lookup") => pc[p] = "fetch"
          /\ stored_hashes'[p] # stored_hashes[p] =>
                pc[p] = "lookup" \/ pc'[p] = "idle"
          /\ (Steps(p) /\ pc[p] = "lookup") =>
                /\ out[p] = <<>> /\ new_hashes[p] = {}
                /\ out'[p] = <<>>
                /\ StoreUnchanged(p)
          /\ SendsItem(p) =>
                /\ pc[p] = "notify"
                /\ store[Prog(p)] = found[p]
                /\ StoreUnchanged(p)
          /\ Inserts(p) =>
                /\ pc[p] = "insert" /\ pc'[p] = "purge"
                /\ idx[p] = Len(items[p]) + 1
                /\ store[Prog(p)] = found[p]
                /\ store'[Prog(p)] = update_hashes(found[p], new_hashes[p], clock)
                /\ new_hashes[p] = Range(ItemHashes(out[p]))
                /\ out'[p] = out[p]
                /\ ~Removes(p)
          /\ Removes(p) =>
                /\ pc[p] = "purge" /\ pc'[p] \in {"finally", "exit"}
                /\ new_hashes[p] # {} =>
                      store[Prog(p)] = update_hashes(found[p], new_hashes[p], clock)
                /\ out'[p] = out[p]]_vars

\* A cycle that sent two notifications has inserted both fingerprints and
\* then purged an entry the table held when the cycle began.
C24_Witness ==
    \E p \in {"interval", "cron1"} :
        /\ Succeeded(p)
        /\ Len(ItemHashes(out[p])) = 2
        /\ Cardinality(new_hashes[p]) = 2
        /\ \A h \in new_hashes[p] : h \in {r.hash : r \in Rows(store[Prog(p)])}
        /\ \E r \in Rows(found[p]) : r \notin Rows(store[Prog(p)])

\* C25: every cycle that has passed the guard eventually returns, with
\* is_running false again, whichever of its steps raises: login or a fetch,
\* the lookup, the insert, the cleanup, or the sending of the operator's
\* error message; every step that is taken returns.
C25_CycleEventuallyIdle ==
    \A t \in AppThreads :
        (pc[t] \in PastGuard) ~> (pc[t] \in {"idle", "done"} /\ ~job_status.is_running)

\* Two cycles in a row have failed, the later one at a store operation, and
\* the program is idle with is_running false.
C25_Witness ==
    /\ pc["interval"] = "idle"
    /\ prev["app"].outcome = "store"
    /\ prev["app"].failures = 2
    /\ ~job_status.is_running

\* C26: the time recorded with a fingerprint is the store's time when it is
\* inserted, never the time the item shows: every entry a step adds has the
\* current time as its timestamp, the lookup returns a fingerprint exactly
\* when an entry of it was inserted at or after now - 24 hours, and the
\* cleanup removes an entry exactly when it was inserted before now - 7 days.
C26_RecordedAtIsInsertTime ==
    [][\A p \in Procs :
          LET s == store[Prog(p)]
              s2 == store'[Prog(p)]
          IN  /\ \A r \in Rows(s2) :
                    CopiesIn(r, s2) > CopiesIn(r, s) => r.timestamp = clock
              /\ (pc[p] = "lookup" /\ pc'[p] \notin {"lookup", "error"}) =>
                    \A h \in {r.hash : r \in Rows(s)} \cup stored_hashes'[p] :
                        h \in stored_hashes'[p] <=>
                            \E r \in Rows(s) :
                                r.hash = h /\ r.timestamp >= now[p] - Lookback
              /\ (pc[p] = "purge" /\ pc'[p] \in {"finally", "exit"}) =>
                    \A r \in Rows(s) :
                        r \notin Rows(s2) <=> r.timestamp < now[p] - Retention]_vars

\* A lookup has left out the fingerprint of a row of the page: the row's
\* date is inside the lookback window, and the entry was inserted before it.
C26_Witness ==
    \E p \in Procs :
        /\ pc[p] \in {"notify", "insert", "purge"}
        /\ \E row \in PageRows(p) :
              /\ Extracts(row, p)
              /\ RowHash(row) \notin stored_hashes[p]
              /\ \E r \in Rows(store[Prog(p)]) :
                    /\ r.hash = RowHash(row)
                    /\ r.timestamp < now[p] - Lookback
                    /\ r.timestamp # PostDatetime(row)

\* Row r1 has its time in data-order, row r2 in the visible text alone, and
\* the two agree in title, link and minute.
SameNoticeTwoPaths(r1, r2) ==
    /\ r1.data_order.present
    /\ ~r2.data_order.present /\ r2.text.dated
    /\ r1.title = r2.title /\ r1.link = r2.link
    /\ r1.data_order.minute = r2.text.minute

\* C27: the same notice has the same fingerprint whichever path parsed its
\* date: of the rows of a page that are all extracted, one whose time is
\* read from data-order and one with the same title, link and minute whose
\* time is read from the visible text give the same message and hash.
C27_SameFingerprintEitherPath ==
    \A p \in {"interval", "cron1"} :
        (pc[p] = "lookup" /\ Len(items[p]) = Len(page[p].notices)) =>
            \A i, j \in 1..Len(items[p]) :
                SameNoticeTwoPaths(page[p].notices[i], page[p].notices[j]) =>
                    /\ items[p][i].message = items[p][j].message
                    /\ items[p][i].hash = items[p][j].hash

\* Both rows of a page were extracted, the first with its time read from a
\* data-order that shows seconds, the second from the visible text.
C27_Witness ==
    \E p \in {"interval", "cron1"} :
        /\ pc[p] = "lookup"
        /\ Len(page[p].notices) = 2
        /\ Len(items[p]) = 2
        /\ SameNoticeTwoPaths(page[p].notices[1], page[p].notices[2])
        /\ page[p].notices[1].data_order.second # 0
        /\ items[p][1].hash = items[p][2].hash

\* C28: last_success is written only by a cycle in which login, the fetches,
\* the extraction, the lookup, the insert if there is one and the cleanup
\* all ran without an exception: the step that writes it is the cleanup of
\* a cycle that raised nothing, and sets it to the current time. No step of
\* a cycle that raises changes it, and it is never set while last_run is
\* unset.
C28_LastSuccessOnlyOnSuccess ==
    [][/\ job_status'.last_success # job_status.last_success =>
             \E t \in AppThreads :
                 /\ pc[t] = "purge" /\ pc'[t] = "finally"
                 /\ err[t] = "none" /\ err'[t] = "none"
                 /\ idx[t] = Len(items[t]) + 1
                 /\ \A h \in new_hashes[t] : h \in {r.hash : r \in Rows(store[Prog(t)])}
                 /\ IsCleanup(t)
                 /\ job_status'.last_success = clock
                 /\ job_status.last_run # NoTime
       /\ \A t \in AppThreads :
             (Steps(t) /\ (err[t] # "none" \/ err'[t] # "none")) =>
                 job_status'.last_success = job_status.last_success
       /\ job_status'.last_success # NoTime => job_status'.last_run # NoTime]_vars

\* A cycle has failed after another had succeeded, and last_success is
\* still set.
C28_Witness ==
    \E t \in AppThreads :
        /\ pc[t] = "finally"
        /\ err[t] # "none"
        /\ job_status.error_count >= 1
        /\ job_status.last_success # NoTime

\* C29: a run of script.py without DATABASE_URL sends no item notification
\* and does no store operation, however many items it extracted: after the
\* extraction it goes to its finally clause, no step of it looks up,
\* inserts or purges, and the table stays as it was.
C29_NoDatabaseNoWork ==
    [][\A p \in ScriptProcs :
          (Steps(p) /\ pc[p] # "idle" /\ ~DATABASE_URL[p]) =>
              /\ StoreUnchanged(p)
              /\ stored_hashes'[p] = {} /\ new_hashes'[p] = {}
              /\ ~SendsItem(p)
              /\ pc'[p] \notin {"lookup", "notify", "insert", "purge"}
              /\ (pc[p] = "fetch" /\ pc'[p] # "error") =>
                    pc'[p] = "exit" /\ out'[p] = <<>>]_vars

\* A run without DATABASE_URL has extracted two items, neither of them in
\* the recent set of the table, and is at its end with nothing sent.
C29_Witness ==
    \E p \in ScriptProcs :
        /\ pc[p] = "exit"
        /\ ~DATABASE_URL[p]
        /\ err[p] = "none"
        /\ Len(items[p]) = 2
        /\ Range(Hashes(items[p])) \cap RecentSet(store[Prog(p)], now[p]) = {}
        /\ store[Prog(p)] # EmptyBag
        /\ out[p] = <<>>

====
